---- MODULE Spec2Model ----
(***************************************************************************)
(* Multi-document QA comparison: the model client factory, the cost        *)
(* calculator, the query dispatcher, the balance checker and the Streamlit *)
(* session that drives them.                                               *)
(*                                                                         *)
(* Conventions.                                                            *)
(*  - A Python str is a sequence of atoms (each atom a fixed piece of      *)
(*    text); "x in s" for the patterns the code looks for is membership of *)
(*    the pattern atom in the sequence, an f-string is concatenation.      *)
(*  - A Python call either returns or raises: Return(v) / Raise(exc, msg). *)
(*  - None for an optional str is NoneStr, a present value is SomeStr(s).  *)
(*  - A dict read with .get(key, 0) is a record whose field is Absent when *)
(*    the key is missing.                                                  *)
(*  - Dollar amounts are exact: prices are in cents per million tokens, a  *)
(*    cost is an integer number of 1e-8 dollars (cents * tokens).  Float   *)
(*    rounding is not modelled.                                            *)
(***************************************************************************)
EXTENDS Integers, Sequences, FiniteSets, TLC

VARIABLES
    session,     \* st.session_state: context, token_count, doc_names, results, question
    pc,          \* position of the script run: "idle", "loop", "invoking"
    selected_models, \* local of the Query Models handler
    question,    \* local: the text area's value in the running script
    results,     \* local: the list being filled by the dispatch loop
    idx,         \* local: position of the for loop in selected_models
    in_flight,   \* provider calls started and not yet returned (client + messages)
    invokes,     \* per model: model.invoke calls made in the current dispatch
    notice,      \* what the last script run rendered transiently (errors, balance)
    event,       \* the interaction that started the last script run, with its widget values
    call,        \* direct call of a library function: its arguments and inputs
    ret          \* outcome of the direct call

vars == <<session, pc, selected_models, question, results, idx, in_flight,
          invokes, notice, event, call, ret>>

----------------------------------------------------------------------------
\* Bounds of the model
MaxMsgLen == 2
MaxTokenUnits == 2
MaxElapsed == 1

----------------------------------------------------------------------------
\* Python values

Absent == -1

NoneStr == [some |-> FALSE, val |-> <<>>]
SomeStr(s) == [some |-> TRUE, val |-> s]

Return(v) == [kind |-> "return", value |-> v]
Raise(exc, msg) == [kind |-> "raise", exc |-> exc, msg |-> msg]

\* pattern in s, for a pattern that is one atom
Contains(s, pat) == \E i \in 1..Len(s) : s[i] = pat

\* s.startswith(pat)
StartsWith(s, pat) == Len(s) >= 1 /\ s[1] = pat

\* d.get(key, default) on a dict whose missing keys read Absent
DictGet(d, key, default) == IF d[key] = Absent THEN default ELSE d[key]

----------------------------------------------------------------------------
\* model_config.py

ModelIds == <<"gpt-5", "claude-sonnet-4-5-20250929", "deepseek-chat", "deepseek-chat-v3.1">>

KnownModels == {ModelIds[i] : i \in 1..Len(ModelIds)}

MODEL_PRICING ==
    [m \in KnownModels |->
        CASE m = "gpt-5" -> [input |-> 250, output |-> 1000, name |-> "GPT-5"]
          [] m = "claude-sonnet-4-5-20250929" ->
                [input |-> 300, output |-> 1500, name |-> "Claude Sonnet 4.5"]
          [] m = "deepseek-chat" ->
                [input |-> 28, output |-> 42, name |-> "DeepSeek v3.2-Exp"]
          [] m = "deepseek-chat-v3.1" ->
                [input |-> 55, output |-> 219, name |-> "DeepSeek v3.1-Terminus"]]

\* os.getenv(name), kept symbolic: the credential a client is built with is
\* named by the environment variable it was read from.
Getenv(name) == [env |-> name]

DefaultBaseUrl == "default"

get_model_v31_same_url(model_name) ==
    IF model_name = "gpt-5" THEN
        Return([cls |-> "ChatOpenAI", model |-> "gpt-5", temperature |-> 0,
                api_key |-> Getenv("OPENAI_API_KEY"), base_url |-> DefaultBaseUrl])
    ELSE IF model_name = "claude-sonnet-4-5-20250929" THEN
        Return([cls |-> "ChatAnthropic", model |-> "claude-sonnet-4-5-20250929",
                temperature |-> 0,
                api_key |-> Getenv("ANTHROPIC_API_KEY"), base_url |-> DefaultBaseUrl])
    ELSE IF model_name \in {"deepseek-chat", "deepseek-chat-v3.1"} THEN
        Return([cls |-> "ChatOpenAI", model |-> "deepseek-chat", temperature |-> 0,
                api_key |-> Getenv("DEEPSEEK_API_KEY"),
                base_url |-> "https://api.deepseek.com"])
    ELSE
        Raise("ValueError", <<"Unknown model: ", model_name>>)

get_model(model_name) ==
    IF model_name = "gpt-5" THEN
        Return([cls |-> "ChatOpenAI", model |-> "gpt-5", temperature |-> 0,
                api_key |-> Getenv("OPENAI_API_KEY"), base_url |-> DefaultBaseUrl])
    ELSE IF model_name = "claude-sonnet-4-5-20250929" THEN
        Return([cls |-> "ChatAnthropic", model |-> "claude-sonnet-4-5-20250929",
                temperature |-> 0,
                api_key |-> Getenv("ANTHROPIC_API_KEY"), base_url |-> DefaultBaseUrl])
    ELSE IF model_name = "deepseek-chat" THEN
        Return([cls |-> "ChatOpenAI", model |-> "deepseek-chat", temperature |-> 0,
                api_key |-> Getenv("DEEPSEEK_API_KEY"),
                base_url |-> "https://api.deepseek.com"])
    ELSE IF model_name = "deepseek-chat-v3.1" THEN
        Return([cls |-> "ChatOpenAI", model |-> "deepseek-chat", temperature |-> 0,
                api_key |-> Getenv("DEEPSEEK_API_KEY"),
                base_url |-> "https://api.deepseek.com/v3.1_terminus_expires_on_20251015"])
    ELSE
        Raise("ValueError", <<"Unknown model: ", model_name>>)

\* cost in 1e-8 dollars: (tokens / 1e6) * (cents / 100)
calculate_cost(model_name, input_tokens, output_tokens) ==
    LET pricing == MODEL_PRICING[model_name]
        input_cost == input_tokens * pricing.input
        output_cost == output_tokens * pricing.output
    IN  input_cost + output_cost

\* Python None as a returned value
PyNone == [kind |-> "None"]

HTTP_OK == 200

\* response.json(): the parsed body; a body that is the JSON literal null
\* parses to None.  (A malformed body raises instead, see below.)
Json(body) == IF body.kind = "null" THEN PyNone ELSE body

check_deepseek_balance_any_status(api_key, net) ==
    IF api_key \in {"unset", "empty"} THEN
        [value |-> PyNone, network_calls |-> 0]
    ELSE IF net.kind = "raise" THEN
        [value |-> PyNone, network_calls |-> 1]
    ELSE IF net.body.kind = "malformed" THEN
        [value |-> PyNone, network_calls |-> 1]
    ELSE
        [value |-> Json(net.body), network_calls |-> 1]

\* api_key: the value os.getenv("DEEPSEEK_API_KEY") gives ("unset" is None,
\* "empty" is ""); net: what the GET does.  The result is the returned value
\* ([kind |-> "None"] for None) and the number of GETs issued.
check_deepseek_balance(api_key, net) ==
    IF api_key \in {"unset", "empty"} THEN
        [value |-> PyNone, network_calls |-> 0]
    ELSE IF net.kind = "raise" THEN
        [value |-> PyNone, network_calls |-> 1]
    ELSE IF net.status_code = HTTP_OK THEN
        IF net.body.kind = "malformed" THEN
            [value |-> PyNone, network_calls |-> 1]
        ELSE
            [value |-> Json(net.body), network_calls |-> 1]
    ELSE
        [value |-> PyNone, network_calls |-> 1]

----------------------------------------------------------------------------
\* query_handler.py

SYSTEM_PROMPT_HEAD ==
    "Use the given context to answer the question.\nIf you don't know the answer, say you don't know. Keep the answer concise.\n\nContext:\n"

Messages(context, q) ==
    << [type |-> "system", content |-> <<SYSTEM_PROMPT_HEAD>> \o context],
       [type |-> "human", content |-> q] >>

NoneTypeGetMsg == <<"'NoneType' object has no attribute 'get'">>

ExtractUsageFlatFirst(response) ==
    LET rm == response.response_metadata
        um == response.usage_metadata
    IN  IF um.kind = "dict" THEN
            Return([input_tokens |-> DictGet(um, "input_tokens", 0),
                    output_tokens |-> DictGet(um, "output_tokens", 0)])
        ELSE IF um.kind = "none" THEN Raise("AttributeError", NoneTypeGetMsg)
        ELSE IF rm.kind = "dict" /\ rm.token_usage.kind = "dict" THEN
            Return([input_tokens |-> DictGet(rm.token_usage, "prompt_tokens", 0),
                    output_tokens |-> DictGet(rm.token_usage, "completion_tokens", 0)])
        ELSE
            Return([input_tokens |-> 0, output_tokens |-> 0])

\* The token usage extraction: hasattr(response, 'response_metadata') is
\* rm.kind = "dict", 'token_usage' in it is token_usage.kind # "nokey";
\* hasattr(response, 'usage_metadata') is um.kind # "noattr".  Calling .get
\* on a usage object that is None raises AttributeError.
ExtractUsage(response) ==
    LET rm == response.response_metadata
        um == response.usage_metadata
    IN  IF rm.kind = "dict" /\ rm.token_usage.kind # "nokey" THEN
            IF rm.token_usage.kind = "dict" THEN
                Return([input_tokens |-> DictGet(rm.token_usage, "prompt_tokens", 0),
                        output_tokens |-> DictGet(rm.token_usage, "completion_tokens", 0)])
            ELSE Raise("AttributeError", NoneTypeGetMsg)
        ELSE IF um.kind # "noattr" THEN
            IF um.kind = "dict" THEN
                Return([input_tokens |-> DictGet(um, "input_tokens", 0),
                        output_tokens |-> DictGet(um, "output_tokens", 0)])
            ELSE Raise("AttributeError", NoneTypeGetMsg)
        ELSE
            Return([input_tokens |-> 0, output_tokens |-> 0])

BALANCE_MSG ==
    <<"Insufficient Balance", " - Please add credits to your ", "DeepSeek",
      " account at ", "https://platform.deepseek.com">>

API_KEY_MSG == <<"Invalid API key", " - Please check your API key in .env file">>

\* the except branch's rewriting of str(e)
ClassifyError(error_msg) ==
    IF Contains(error_msg, "402") \/ Contains(error_msg, "Insufficient Balance") THEN
        BALANCE_MSG
    ELSE IF Contains(error_msg, "401") \/ Contains(error_msg, "Unauthorized") THEN
        API_KEY_MSG
    ELSE
        error_msg

\* the dict the except branch returns
ErrorResult(model_name, e, elapsed_time) ==
    LET error_msg == ClassifyError(e)
    IN  [model |-> MODEL_PRICING[model_name].name,
         response |-> <<"Error: ">> \o error_msg,
         input_tokens |-> 0,
         output_tokens |-> 0,
         total_tokens |-> 0,
         cost |-> 0,
         time |-> elapsed_time,
         error |-> SomeStr(error_msg)]

SuccessResultOutputOnly(model_name, response, usage, elapsed_time) ==
    [model |-> MODEL_PRICING[model_name].name,
     response |-> response.content,
     input_tokens |-> usage.input_tokens,
     output_tokens |-> usage.output_tokens,
     total_tokens |-> usage.output_tokens,
     cost |-> calculate_cost(model_name, usage.input_tokens, usage.output_tokens),
     time |-> elapsed_time,
     error |-> NoneStr]

\* the dict the try branch returns
SuccessResult(model_name, response, usage, elapsed_time) ==
    [model |-> MODEL_PRICING[model_name].name,
     response |-> response.content,
     input_tokens |-> usage.input_tokens,
     output_tokens |-> usage.output_tokens,
     total_tokens |-> usage.input_tokens + usage.output_tokens,
     cost |-> calculate_cost(model_name, usage.input_tokens, usage.output_tokens),
     time |-> elapsed_time,
     error |-> NoneStr]

\* The try/except of query_model once the client exists.  outcome is what
\* model.invoke(messages) does: it raises an Exception with str(e) = msg, or
\* returns a response; elapsed is time.time() - start_time.
TryInvoke(model_name, outcome) ==
    IF outcome.kind = "raise" THEN
        ErrorResult(model_name, outcome.msg, outcome.elapsed)
    ELSE
        LET usage == ExtractUsage(outcome.response)
        IN  IF usage.kind = "raise" THEN
                ErrorResult(model_name, usage.msg, outcome.elapsed)
            ELSE
                SuccessResult(model_name, outcome.response, usage.value,
                              outcome.elapsed)

\* query_model(model_name, context, question): get_model runs before the try
\* block, so what it raises leaves query_model.
query_model(model_name, context, q, outcome) ==
    LET model == get_model(model_name)
    IN  IF model.kind = "raise" THEN model
        ELSE Return(TryInvoke(model_name, outcome))

----------------------------------------------------------------------------
\* document_loader.py

\* The PDF files a documents directory can hold, in sorted(...) order, and
\* the text PyPDFLoader extracts from each.
PdfFiles == <<"a.pdf", "b.pdf">>

DocText(name) == <<"text of ", name>>

\* tiktoken is an external tokenizer: the count is taken per atom.
CountTokens(text) == Len(text)

RECURSIVE ConcatDocs(_, _)
\* the loop over sorted(pdf_files), from file index i on
ConcatDocs(dir, i) ==
    IF i > Len(PdfFiles) THEN [all_text |-> <<>>, document_names |-> <<>>]
    ELSE LET rest == ConcatDocs(dir, i + 1)
         IN  IF i \in dir THEN
                 [all_text |-> <<"\n\n=== Document: ", PdfFiles[i], " ===\n\n">>
                                 \o DocText(PdfFiles[i]) \o rest.all_text,
                  document_names |-> <<PdfFiles[i]>> \o rest.document_names]
             ELSE rest

\* dir: the indices into PdfFiles of the files docs_path.glob("*.pdf") finds
load_documents(dir) ==
    LET d == ConcatDocs(dir, 1)
    IN  [all_text |-> d.all_text,
         token_count |-> CountTokens(d.all_text),
         document_names |-> d.document_names]

----------------------------------------------------------------------------
\* Inputs: what the providers, the network and the user can supply

SeqsUpTo(S, n) == UNION {[1..k -> S] : k \in 0..n}

MsgAtoms ==
    {"402", "Insufficient Balance", "401", "Unauthorized", "Error: ",
     "Connection timed out"}

ErrorMsgs == SeqsUpTo(MsgAtoms, MaxMsgLen)

TokenVals == {50 * k : k \in 0..MaxTokenUnits}

TokenOrAbsent == TokenVals \cup {Absent}

NoTokenUsage == [kind |-> "nokey", prompt_tokens |-> Absent, completion_tokens |-> Absent]

TokenUsages ==
    {NoTokenUsage,
     [kind |-> "none", prompt_tokens |-> Absent, completion_tokens |-> Absent]}
    \cup [kind : {"dict"}, prompt_tokens : TokenOrAbsent, completion_tokens : TokenOrAbsent]

ResponseMetadatas ==
    {[kind |-> "noattr", token_usage |-> NoTokenUsage]}
    \cup [kind : {"dict"}, token_usage : TokenUsages]

UsageMetadatas ==
    {[kind |-> k, input_tokens |-> Absent, output_tokens |-> Absent] : k \in {"noattr", "none"}}
    \cup [kind : {"dict"}, input_tokens : TokenOrAbsent, output_tokens : TokenOrAbsent]

Contents == {<<>>, <<"answer">>, <<"Error: ", "answer">>}

Responses ==
    [response_metadata : ResponseMetadatas, usage_metadata : UsageMetadatas,
     content : Contents]

NoResponse ==
    [response_metadata |-> [kind |-> "noattr", token_usage |-> NoTokenUsage],
     usage_metadata |-> [kind |-> "noattr", input_tokens |-> Absent, output_tokens |-> Absent],
     content |-> <<>>]

\* what model.invoke(messages) can do
Outcomes ==
    [kind : {"raise"}, msg : ErrorMsgs, response : {NoResponse}, elapsed : 0..MaxElapsed]
    \cup [kind : {"response"}, msg : {<<>>}, response : Responses, elapsed : 0..MaxElapsed]

FlatResponse(i, o, content) ==
    [response_metadata |-> [kind |-> "dict", token_usage |-> NoTokenUsage],
     usage_metadata |-> [kind |-> "dict", input_tokens |-> i, output_tokens |-> o],
     content |-> content]

\* the provider behaviours the session is run against
SessionOutcomes ==
    {[kind |-> "response", msg |-> <<>>, elapsed |-> 1,
      response |-> FlatResponse(100, 50, <<"answer">>)],
     [kind |-> "raise", msg |-> <<"402">>, elapsed |-> 0, response |-> NoResponse],
     [kind |-> "raise", msg |-> <<"Connection timed out">>, elapsed |-> 1,
      response |-> NoResponse]}

ModelNames == KnownModels \cup {"gpt-4"}

Questions == {<<>>, <<"q1">>, <<"q2">>}

\* the documents directory is empty or holds every file
Dirs == {{}, 1..Len(PdfFiles)}

ApiKeys == {"unset", "empty", "set"}

Bodies ==
    {[kind |-> k, is_available |-> FALSE, balance_infos |-> <<>>] : k \in {"malformed", "null"}}
    \cup [kind : {"dict"}, is_available : BOOLEAN, balance_infos : {<<>>, <<0>>, <<1250>>}]

NetOutcomes ==
    {[kind |-> "raise", status_code |-> 0,
      body |-> [kind |-> "malformed", is_available |-> FALSE, balance_infos |-> <<>>]]}
    \cup [kind : {"response"}, status_code : {200, 401, 500}, body : Bodies]

----------------------------------------------------------------------------
\* app.py: the Streamlit session.  Every user interaction reruns the script;
\* widget values arrive with the interaction, what a run renders lasts until
\* the next run.

NoSession ==
    [keys |-> {}, context |-> <<>>, token_count |-> 0, doc_names |-> <<>>,
     results |-> <<>>, question |-> <<>>]

NoInvokes == [m \in KnownModels |-> 0]

NoCall == [op |-> "none"]

NoRet == [done |-> FALSE]

IdleLocals ==
    /\ pc = "idle"
    /\ selected_models = <<>>
    /\ question = <<>>
    /\ results = <<>>
    /\ idx = 1
    /\ in_flight = {}
    /\ invokes = NoInvokes
    /\ notice = "none"
    /\ event = [button |-> "none"]

Init ==
    /\ session = NoSession
    /\ IdleLocals
    /\ call = NoCall
    /\ ret = NoRet

\* a script run starts: the locals and the rendering of the previous run are gone
FreshRun ==
    /\ selected_models' = <<>>
    /\ question' = <<>>
    /\ results' = <<>>
    /\ idx' = 1
    /\ in_flight' = {}
    /\ invokes' = NoInvokes

\* "Load Documents"
PressLoad(dir) ==
    /\ pc = "idle"
    /\ LET d == load_documents(dir)
       IN  session' = [session EXCEPT !.keys = @ \cup {"context", "token_count", "doc_names"},
                                      !.context = d.all_text,
                                      !.token_count = d.token_count,
                                      !.doc_names = d.document_names]
    /\ FreshRun
    /\ notice' = "none"
    /\ event' = [button |-> "load"]
    /\ UNCHANGED <<pc, call, ret>>

\* what the sidebar renders for a balance_info
BalanceView(balance_info) ==
    IF balance_info.kind = "dict" THEN
        LET is_available == balance_info.is_available
            balances == balance_info.balance_infos
        IN  IF Len(balances) > 0 THEN
                IF is_available /\ balances[1] > 0 THEN "balance_success"
                ELSE "balance_insufficient"
            ELSE "balance_blank"
    ELSE "balance_warning"

\* "Check DeepSeek Balance"
PressBalance(api_key, net) ==
    /\ pc = "idle"
    /\ notice' = BalanceView(check_deepseek_balance(api_key, net).value)
    /\ FreshRun
    /\ event' = [button |-> "balance"]
    /\ UNCHANGED <<session, pc, call, ret>>

\* the checkboxes in column order
SelectedModels(use) == SelectSeq(ModelIds, LAMBDA m : use[m])

\* "Query Models": use are the four checkboxes, q the text area.  The button
\* is rendered only once a context is in the session state.  The run either
\* renders an error or enters the dispatch loop.
PressQuery(use, q) ==
    /\ pc = "idle"
    /\ "context" \in session.keys
    /\ event' = [button |-> "query", use |-> use, q |-> q]
    /\ question' = q
    /\ results' = <<>>
    /\ idx' = 1
    /\ in_flight' = {}
    /\ invokes' = NoInvokes
    /\ IF q = <<>> THEN
           /\ notice' = "Please enter a question"
           /\ selected_models' = <<>>
           /\ pc' = "idle"
       ELSE IF SelectedModels(use) = <<>> THEN
           /\ notice' = "Please select at least one model"
           /\ selected_models' = <<>>
           /\ pc' = "idle"
       ELSE
           /\ notice' = "none"
           /\ selected_models' = SelectedModels(use)
           /\ pc' = "loop"
    /\ UNCHANGED <<session, call, ret>>

\* One iteration of the for loop up to the blocking call: query_model builds
\* the client and the messages and enters model.invoke.  An exception of
\* get_model is not caught anywhere and ends the script run.
QueryStart ==
    /\ pc = "loop"
    /\ idx <= Len(selected_models)
    /\ LET model_name == selected_models[idx]
           model == get_model(model_name)
       IN  IF model.kind = "raise" THEN
               /\ pc' = "idle"
               /\ notice' = "uncaught exception"
               /\ UNCHANGED <<in_flight, invokes>>
           ELSE
               /\ in_flight' = in_flight \cup
                       {[model_name |-> model_name, client |-> model.value,
                         messages |-> Messages(session.context, question)]}
               /\ invokes' = [invokes EXCEPT ![model_name] = @ + 1]
               /\ pc' = "invoking"
               /\ UNCHANGED notice
    /\ UNCHANGED <<session, selected_models, question, results, idx, event, call, ret>>

QueryReturnRetry(outcome) ==
    /\ pc = "invoking"
    /\ \E c \in in_flight :
        LET result == TryInvoke(c.model_name, outcome)
        IN  /\ in_flight' = in_flight \ {c}
            /\ IF result.error.some THEN UNCHANGED <<results, idx>>
               ELSE /\ results' = Append(results, result)
                    /\ idx' = idx + 1
    /\ pc' = "loop"
    /\ UNCHANGED <<session, selected_models, question, invokes, notice, event, call,
                   ret>>

QueryReturnSkipFailed(outcome) ==
    /\ pc = "invoking"
    /\ \E c \in in_flight :
        LET result == TryInvoke(c.model_name, outcome)
        IN  /\ in_flight' = in_flight \ {c}
            /\ results' = IF result.error.some THEN results ELSE Append(results, result)
    /\ idx' = idx + 1
    /\ pc' = "loop"
    /\ UNCHANGED <<session, selected_models, question, invokes, notice, event, call,
                   ret>>

\* model.invoke returns or raises: the rest of query_model, and
\* results.append(result)
QueryReturn(outcome) ==
    /\ pc = "invoking"
    /\ \E c \in in_flight :
        /\ in_flight' = in_flight \ {c}
        /\ results' = Append(results, TryInvoke(c.model_name, outcome))
    /\ idx' = idx + 1
    /\ pc' = "loop"
    /\ UNCHANGED <<session, selected_models, question, invokes, notice, event, call,
                   ret>>

StoreResultsEachIteration ==
    /\ pc = "loop"
    /\ idx > 1
    /\ session' = [session EXCEPT !.keys = @ \cup {"results", "question"},
                                  !.results = results,
                                  !.question = question]
    /\ pc' = IF idx > Len(selected_models) THEN "idle" ELSE "loop"
    /\ UNCHANGED <<selected_models, question, results, idx, in_flight, invokes,
                   notice, event, call, ret>>

\* after the loop: st.session_state.results / .question are assigned and the
\* run ends
StoreResults ==
    /\ pc = "loop"
    /\ idx > Len(selected_models)
    /\ session' = [session EXCEPT !.keys = @ \cup {"results", "question"},
                                  !.results = results,
                                  !.question = question]
    /\ pc' = "idle"
    /\ UNCHANGED <<selected_models, question, results, idx, in_flight, invokes,
                   notice, event, call, ret>>

Next ==
    \/ \E dir \in Dirs : PressLoad(dir)
    \/ \E api_key \in ApiKeys, net \in NetOutcomes : PressBalance(api_key, net)
    \/ \E use \in [KnownModels -> BOOLEAN], q \in Questions : PressQuery(use, q)
    \/ QueryStart
    \/ \E outcome \in SessionOutcomes : QueryReturn(outcome)
    \/ StoreResults

Spec == Init /\ [][Next]_vars

----------------------------------------------------------------------------
\* Direct calls of the library functions, one call per behaviour, over all
\* the inputs.

LibCalls ==
    [op : {"get_model"}, model_name : ModelNames]
    \cup [op : {"query_model"}, model_name : ModelNames, context : {<<"ctx">>},
          question : {<<"q1">>}, outcome : Outcomes]
    \cup [op : {"check_deepseek_balance"}, api_key : ApiKeys, net : NetOutcomes]

InitLib ==
    /\ session = NoSession
    /\ IdleLocals
    /\ call \in LibCalls
    /\ ret = NoRet

AppUnchanged ==
    UNCHANGED <<session, pc, selected_models, question, results, idx, in_flight,
                invokes, notice, event, call>>

CallGetModel ==
    /\ call.op = "get_model"
    /\ ~ret.done
    /\ ret' = [done |-> TRUE, out |-> get_model(call.model_name)]
    /\ AppUnchanged

CallQueryModel ==
    /\ call.op = "query_model"
    /\ ~ret.done
    /\ ret' = [done |-> TRUE,
               out |-> query_model(call.model_name, call.context, call.question,
                                   call.outcome)]
    /\ AppUnchanged

CallCheckBalance ==
    /\ call.op = "check_deepseek_balance"
    /\ ~ret.done
    /\ ret' = [done |-> TRUE, out |-> check_deepseek_balance(call.api_key, call.net)]
    /\ AppUnchanged

NextLib ==
    \/ CallGetModel
    \/ CallQueryModel
    \/ CallCheckBalance

SpecLib == InitLib /\ [][NextLib]_vars

----------------------------------------------------------------------------
\* Properties of the library functions (checked under SpecLib)

QueryDone == call.op = "query_model" /\ ret.done

QueryReturned == QueryDone /\ ret.out.kind = "return"

Zeroed(r) ==
    r.input_tokens = 0 /\ r.output_tokens = 0 /\ r.total_tokens = 0 /\ r.cost = 0

\* a failure arose while the query was processed
QueryFailed ==
    \/ get_model(call.model_name).kind = "raise"
    \/ call.outcome.kind = "raise"
    \/ ExtractUsage(call.outcome.response).kind = "raise"

\* C1: query_model never lets an exception reach its caller: whatever the
\* model identifier and whatever fails (get_model, the provider invoke, the
\* usage extraction), it returns a QueryResult, which carries the error.
C1_NoExceptionLeavesQueryModel ==
    QueryDone =>
        /\ ret.out.kind = "return"
        /\ QueryFailed => ret.out.value.error.some

\* C3 as stated: total_tokens is the sum, cost >= 0, and error is present
\* exactly when response_text is "Error: "-prefixed and tokens and cost are 0.
C3_ErrorIffPrefixedAndZeroed ==
    QueryReturned =>
        LET r == ret.out.value
        IN  /\ r.total_tokens = r.input_tokens + r.output_tokens
            /\ r.cost >= 0
            /\ r.error.some <=> (StartsWith(r.response, "Error: ") /\ Zeroed(r))

\* C3 amended: total_tokens is the sum, cost >= 0, an error implies an
\* "Error: "-prefixed response_text of the same message with tokens and cost
\* zeroed; a result without error that is prefixed and zeroed is the
\* provider's own answer, returned verbatim.
C3_ErrorImpliesPrefixedAndZeroed ==
    QueryReturned =>
        LET r == ret.out.value
        IN  /\ r.total_tokens = r.input_tokens + r.output_tokens
            /\ r.cost >= 0
            /\ r.error.some =>
                   /\ r.response = <<"Error: ">> \o r.error.val
                   /\ Zeroed(r)
            /\ (~r.error.some /\ StartsWith(r.response, "Error: ") /\ Zeroed(r)) =>
                   /\ call.outcome.kind = "response"
                   /\ r.response = call.outcome.response.content

\* an error result whose message was rewritten
C3_Witness ==
    /\ QueryReturned
    /\ ret.out.value.error.some
    /\ ret.out.value.error.val = API_KEY_MSG
    /\ ret.out.value.time = 1

\* the provider a model identifier is served by, read off the credential its
\* client is built with
ProviderOf(model_name) ==
    LET env == get_model(model_name).value.api_key.env
    IN  CASE env = "OPENAI_API_KEY" -> "OpenAI"
          [] env = "ANTHROPIC_API_KEY" -> "Anthropic"
          [] env = "DEEPSEEK_API_KEY" -> "DeepSeek"

IsBalanceError(e) == Contains(e, "402") \/ Contains(e, "Insufficient Balance")

IsAuthError(e) == Contains(e, "401") \/ Contains(e, "Unauthorized")

ProviderRaised ==
    QueryDone /\ call.model_name \in KnownModels /\ call.outcome.kind = "raise"

\* C4: when the invoke raises with message e, the error is the balance
\* top-up message naming the failing provider's billing page if e contains
\* "402" or "Insufficient Balance", else the invalid-API-key message if e
\* contains "401" or "Unauthorized", else e; tokens and cost are zero and
\* response_text is "Error: " followed by that message.
C4_ClassifiedErrorNamesProvider ==
    ProviderRaised =>
        LET e == call.outcome.msg
            r == ret.out.value
        IN  /\ r.error.some
            /\ IsBalanceError(e) =>
                   /\ StartsWith(r.error.val, "Insufficient Balance")
                   /\ Contains(r.error.val, ProviderOf(call.model_name))
            /\ (~IsBalanceError(e) /\ IsAuthError(e)) => r.error.val = API_KEY_MSG
            /\ (~IsBalanceError(e) /\ ~IsAuthError(e)) => r.error.val = e
            /\ Zeroed(r)
            /\ r.response = <<"Error: ">> \o r.error.val

\* C4 without the provider: the same classification with the balance
\* message as the code words it (it names the DeepSeek account whichever
\* provider raised).
C4_ClassifiedErrorFixedText ==
    ProviderRaised =>
        LET e == call.outcome.msg
            r == ret.out.value
        IN  /\ r.error.some
            /\ IsBalanceError(e) =>
                   r.error.val = <<"Insufficient Balance", " - Please add credits to your ",
                                   "DeepSeek", " account at ",
                                   "https://platform.deepseek.com">>
            /\ (~IsBalanceError(e) /\ IsAuthError(e)) => r.error.val = API_KEY_MSG
            /\ (~IsBalanceError(e) /\ ~IsAuthError(e)) => r.error.val = e
            /\ Zeroed(r)
            /\ r.response = <<"Error: ">> \o r.error.val

\* the response carries no usage: no 'token_usage' in response_metadata, and
\* usage_metadata missing, None or empty
LacksUsage(response) ==
    /\ \/ response.response_metadata.kind = "noattr"
       \/ response.response_metadata.token_usage.kind = "nokey"
    /\ \/ response.usage_metadata.kind \in {"noattr", "none"}
       \/ /\ response.usage_metadata.kind = "dict"
          /\ response.usage_metadata.input_tokens = Absent
          /\ response.usage_metadata.output_tokens = Absent

\* C5: a successful response without any usage field gives zero tokens, zero
\* cost and no error.
C5_MissingUsageIsNotAnError ==
    ( /\ QueryDone
      /\ call.model_name \in KnownModels
      /\ call.outcome.kind = "response"
      /\ LacksUsage(call.outcome.response) ) =>
        /\ Zeroed(ret.out.value)
        /\ ~ret.out.value.error.some

\* C6: for a successful response, a nested usage object gives input_tokens =
\* prompt_tokens and output_tokens = completion_tokens, a flat one gives its
\* input_tokens / output_tokens; total_tokens is the sum, cost is
\* calculate_cost of the two counts, error is none.
C6_BothUsageShapes ==
    ( /\ QueryDone
      /\ call.model_name \in KnownModels
      /\ call.outcome.kind = "response" ) =>
        LET resp == call.outcome.response
            tu == resp.response_metadata.token_usage
            um == resp.usage_metadata
            r == ret.out.value
            Reports(i, o) ==
                /\ r.input_tokens = i
                /\ r.output_tokens = o
                /\ r.total_tokens = i + o
                /\ r.cost = calculate_cost(call.model_name, i, o)
                /\ r.cost = i * MODEL_PRICING[call.model_name].input
                            + o * MODEL_PRICING[call.model_name].output
                /\ ~r.error.some
        IN  /\ ( /\ resp.response_metadata.kind = "dict"
                 /\ tu.kind = "dict"
                 /\ tu.prompt_tokens # Absent
                 /\ tu.completion_tokens # Absent ) =>
                    Reports(tu.prompt_tokens, tu.completion_tokens)
            /\ ( /\ \/ resp.response_metadata.kind = "noattr"
                    \/ tu.kind = "nokey"
                 /\ um.kind = "dict"
                 /\ um.input_tokens # Absent
                 /\ um.output_tokens # Absent ) =>
                    Reports(um.input_tokens, um.output_tokens)

\* a nested usage {prompt_tokens: 100, completion_tokens: 50} beside a flat
\* usage of other values: the nested counts are reported, total_tokens 150
C6_Witness ==
    /\ QueryReturned
    /\ call.outcome.kind = "response"
    /\ call.outcome.response.response_metadata.kind = "dict"
    /\ call.outcome.response.response_metadata.token_usage.kind = "dict"
    /\ call.outcome.response.response_metadata.token_usage.prompt_tokens = 100
    /\ call.outcome.response.response_metadata.token_usage.completion_tokens = 50
    /\ call.outcome.response.usage_metadata.kind = "dict"
    /\ call.outcome.response.usage_metadata.input_tokens = 50
    /\ ret.out.value.total_tokens = 150

\* C7: for the four enumerated identifiers get_model returns a client with
\* temperature 0 and the right model name, credential and endpoint; for any
\* other identifier it raises the unknown-model error and returns no client.
C7_ClientPairing ==
    (call.op = "get_model" /\ ret.done) =>
        LET m == call.model_name
            out == ret.out
            Client(cls, model, key, url) ==
                /\ out.kind = "return"
                /\ out.value.cls = cls
                /\ out.value.model = model
                /\ out.value.temperature = 0
                /\ out.value.api_key = [env |-> key]
                /\ out.value.base_url = url
        IN  /\ m = "gpt-5" =>
                Client("ChatOpenAI", "gpt-5", "OPENAI_API_KEY", "default")
            /\ m = "claude-sonnet-4-5-20250929" =>
                Client("ChatAnthropic", "claude-sonnet-4-5-20250929",
                       "ANTHROPIC_API_KEY", "default")
            /\ m = "deepseek-chat" =>
                Client("ChatOpenAI", "deepseek-chat", "DEEPSEEK_API_KEY",
                       "https://api.deepseek.com")
            /\ m = "deepseek-chat-v3.1" =>
                /\ Client("ChatOpenAI", "deepseek-chat", "DEEPSEEK_API_KEY",
                          "https://api.deepseek.com/v3.1_terminus_expires_on_20251015")
                /\ out.value.base_url # get_model("deepseek-chat").value.base_url
            /\ m \notin {"gpt-5", "claude-sonnet-4-5-20250929", "deepseek-chat",
                         "deepseek-chat-v3.1"} =>
                /\ out.kind = "raise"
                /\ out.exc = "ValueError"
                /\ StartsWith(out.msg, "Unknown model: ")

C7_Witness ==
    /\ call.op = "get_model"
    /\ ret.done
    /\ call.model_name = "deepseek-chat-v3.1"
    /\ ret.out.kind = "return"

BalanceDone == call.op = "check_deepseek_balance" /\ ret.done

\* C8: check_balance returns a non-none value only when the credential is
\* set, the GET completed with HTTP 200 and the body parsed; it returns none
\* on a missing credential, a non-200 status or an exception; at most one GET
\* is issued, and none when the credential is unset.
C8_BalanceCollapsesFailures ==
    BalanceDone =>
        LET out == ret.out
            ok == /\ call.api_key = "set"
                  /\ call.net.kind = "response"
                  /\ call.net.status_code = 200
                  /\ call.net.body.kind # "malformed"
        IN  /\ out.value # PyNone => (ok /\ out.value = call.net.body)
            /\ ~ok => out.value = PyNone
            /\ (ok /\ call.net.body.kind = "dict") => out.value = call.net.body
            /\ out.network_calls <= 1
            /\ call.api_key = "unset" => out.network_calls = 0

\* a non-200 answer to a credentialed GET
C8_Witness ==
    /\ BalanceDone
    /\ call.api_key = "set"
    /\ call.net.kind = "response"
    /\ call.net.status_code = 401
    /\ call.net.body.kind = "dict"
    /\ ret.out.network_calls = 1
    /\ ret.out.value = PyNone

----------------------------------------------------------------------------
\* Properties of the session (checked under Spec)

FixedOrder ==
    <<"gpt-5", "claude-sonnet-4-5-20250929", "deepseek-chat", "deepseek-chat-v3.1">>

\* the last run was a Query Models press with a question and a selection,
\* and it has ended
DispatchEnded ==
    /\ pc = "idle"
    /\ event.button = "query"
    /\ event.q # <<>>
    /\ \E m \in KnownModels : event.use[m]

\* C2: after a dispatch the stored results hold exactly one result per
\* selected model, in the fixed selection order, whichever provider calls
\* failed.
C2_OneResultPerSelectedModel ==
    DispatchEnded =>
        LET chosen == SelectSeq(FixedOrder, LAMBDA m : event.use[m])
        IN  /\ "results" \in session.keys
            /\ Len(session.results) = Len(chosen)
            /\ \A i \in 1..Len(chosen) :
                   session.results[i].model = MODEL_PRICING[chosen[i]].name

\* all four selected, the first provider failed, the second answered
C2_Witness ==
    /\ DispatchEnded
    /\ Len(session.results) = 4
    /\ session.results[1].error.some
    /\ ~session.results[2].error.some
    /\ session.results[3].error.some

\* the for loop has run over every selected model
LoopDone == pc = "loop" /\ idx > Len(selected_models)

\* C9: queries are issued one after another without retries: at most one
\* provider call is in flight, it is the call for the model the loop is at
\* and every earlier model has its result; no model is invoked twice, and
\* when the loop is over every selected model has been invoked exactly once.
C9_SequentialNoRetry ==
    /\ Cardinality(in_flight) <= 1
    /\ \A m \in KnownModels : invokes[m] <= 1
    /\ pc = "invoking" =>
           /\ \E c \in in_flight : c.model_name = selected_models[idx]
           /\ Len(results) = idx - 1
           /\ \A i \in 1..Len(selected_models) :
                  invokes[selected_models[i]] = IF i <= idx THEN 1 ELSE 0
    /\ pc # "invoking" => in_flight = {}
    /\ (LoopDone \/ DispatchEnded) =>
           \A m \in KnownModels : invokes[m] = IF event.use[m] THEN 1 ELSE 0

\* the loop is over, every model was selected, some invokes failed
C9_Witness ==
    /\ LoopDone
    /\ Len(selected_models) = 4
    /\ results[2].error.some
    /\ ~results[4].error.some
    /\ \A m \in KnownModels : invokes[m] = 1

StoredChanges ==
    \/ session'.results # session.results
    \/ session'.question # session.question
    \/ ("results" \in session'.keys) # ("results" \in session.keys)
    \/ ("question" \in session'.keys) # ("question" \in session.keys)

\* C10: the stored results and question change only together, to the
\* complete result list and the question of a dispatch that has queried
\* every selected model; a Query Models press with an empty question or no
\* model selected starts no dispatch and leaves them unchanged; and no
\* dispatch runs before a context is loaded.
C10_StoredOnlyByCompleteDispatch ==
    [][ /\ StoredChanges =>
              /\ pc = "loop"
              /\ Len(results) = Len(selected_models)
              /\ \A i \in 1..Len(selected_models) :
                     results[i].model = MODEL_PRICING[selected_models[i]].name
              /\ \A m \in KnownModels : invokes[m] = IF event.use[m] THEN 1 ELSE 0
              /\ session'.results = results
              /\ session'.question = question
              /\ question = event.q
              /\ {"results", "question"} \subseteq session'.keys
        /\ ( /\ pc = "idle"
             /\ event'.button = "query"
             /\ \/ event'.q = <<>>
                \/ \A m \in KnownModels : ~event'.use[m] ) =>
              /\ pc' = "idle"
              /\ in_flight' = {}
              /\ invokes' = NoInvokes
              /\ session' = session
        /\ (pc' # "idle" \/ in_flight' # {} \/ event'.button = "query") =>
              "context" \in session.keys
      ]_vars

\* results are stored, and a later press with an empty question left them
C10_Witness ==
    /\ "results" \in session.keys
    /\ Len(session.results) = 2
    /\ pc = "idle"
    /\ event.button = "query"
    /\ event.q = <<>>
    /\ event.use["gpt-5"]

====
